---- MODULE Spec2Model ----
(***************************************************************************)
(* csv2ofx.py: the CSV-to-OFX converter.  The module models                *)
(*   - AmazonJournal.read_csv / AmazonOrder.add_row / AmazonJournal.search *)
(*     (the order-reconciliation index),                                   *)
(*   - Journal.read_csv (one action per data row) and Journal.write_ofx,   *)
(*   - AmazonOrderBatch.omit (the width-bounded truncation),               *)
(*   - main's loop over the input files,                                   *)
(*   - gettimezone, Timezone and Journal.ofxdatetime.                      *)
(* Text is a sequence of characters (one-character strings, or a named     *)
(* token for a non-ASCII character); a Python exception is the name of its *)
(* class, "none" when nothing was raised.                                  *)
(***************************************************************************)
EXTENDS Integers, Sequences, FiniteSets, TLC

VARIABLES
    pc,         \* position of the run: see Init and the actions
    exc,        \* class name of the exception that ended the run, or "none"
    cfg,        \* arguments of Journal.read_csv: fields, accounttype, amazon, subst
    az,         \* AmazonJournal: the orders in insertion order (a dict keeps it)
    azOrder,    \* position in az of the object bound to the local `order`, 0 = unbound
    azN,        \* rows of the order history consumed so far
    journal,    \* Journal: a set of Transaction objects
    i,          \* enumerate() index of the next data row
    prev_date,  \* local prev_date of Journal.read_csv
    line,       \* the data row handled last
    warnings,   \* number of warnings written to stderr
    query,      \* arguments of the last AmazonJournal.search / write_ofx / omit call
    result,     \* what that call returned or wrote
    files,      \* main: the input files of the invocation, in command-line order
    fileno,     \* main: how many of them the loop has taken up
    attempted   \* history: the positions in files of the files taken up, in order

vars == <<pc, exc, cfg, az, azOrder, azN, journal, i, prev_date, line,
          warnings, query, result, files, fileno, attempted>>

\* the loop of main over the input files
batchvars == <<files, fileno, attempted>>

\* ------------------------------------------------------------------ bounds
MaxAzRows == 3
MaxRows == 2

\* ------------------------------------------------------------ value helpers
Ok(v) == [exc |-> "none", val |-> v]
Raise(e) == [exc |-> e, val |-> <<>>]

\* F applied to the value of e, e evaluated once
Let(e, F(_)) == CHOOSE y \in {F(x) : x \in {e}} : TRUE

\* F applied to what e returns, or the exception e raises
Try(e, F(_)) == Let(e, LAMBDA r : IF r.exc # "none" THEN Raise(r.exc) ELSE F(r.val))

RECURSIVE SumSeq(_)
SumSeq(s) == IF s = <<>> THEN 0 ELSE Head(s) + SumSeq(Tail(s))

RECURSIVE Concat(_)
Concat(ss) == IF ss = <<>> THEN <<>> ELSE Head(ss) \o Concat(Tail(ss))

InSeq(x, s) == \E k \in 1..Len(s) : s[k] = x

\* list.remove(x): drops the first occurrence
ListRemove(s, x) ==
    LET k == CHOOSE k \in 1..Len(s) : s[k] = x /\ \A j \in 1..(k - 1) : s[j] # x
    IN  SubSeq(s, 1, k - 1) \o SubSeq(s, k + 1, Len(s))

\* ---------------------------------------------------------------- text
Digits == <<"0", "1", "2", "3", "4", "5", "6", "7", "8", "9">>
IsDigit(ch) == \E k \in 1..10 : Digits[k] = ch
DigitVal(ch) == (CHOOSE k \in 1..10 : Digits[k] = ch) - 1

RECURSIVE DigitsVal(_)
DigitsVal(s) ==
    IF s = <<>> THEN 0 ELSE 10 * DigitsVal(SubSeq(s, 1, Len(s) - 1)) + DigitVal(s[Len(s)])

\* int(s) for a str: an optional sign and at least one digit, else ValueError
ParseInt(s) ==
    LET body == IF s # <<>> /\ s[1] \in {"+", "-"} THEN Tail(s) ELSE s
    IN  IF body = <<>> \/ \E k \in 1..Len(body) : ~IsDigit(body[k])
        THEN Raise("ValueError")
        ELSE Ok(IF s[1] = "-" THEN 0 - DigitsVal(body) ELSE DigitsVal(body))

\* ------------------------------------------------------------- normalize
\* Replacement templates of the two re.sub calls, character by character.
\* "\\1\uff70" is backslash, 1, U+FF70; "\\1\\u30fc" is backslash, 1, backslash, u, 3, 0, f, c.
REPL_HALFWIDTH == <<"\\", "1", "hw_cho">>
REPL_FULLWIDTH == <<"\\", "1", "\\", "u", "3", "0", "f", "c">>

AsciiLetters ==
    {"a", "b", "c", "d", "e", "f", "g", "h", "k", "n", "r", "t", "u", "v", "x",
     "A", "C", "J", "M", "N", "O", "P", "S", "Z"}
TemplateEscapes == {"a", "b", "f", "n", "r", "t", "v", "\\", "g"}

\* re's template parser: after a backslash a digit is a group reference, a known
\* escape is that character, and any other ASCII letter is re.error("bad escape").
RECURSIVE BadEscape(_)
BadEscape(t) ==
    IF Len(t) < 2 THEN FALSE
    ELSE IF t[1] # "\\" THEN BadEscape(Tail(t))
    ELSE IF t[2] \in AsciiLetters \ TemplateEscapes THEN TRUE
    ELSE BadEscape(Tail(Tail(t)))

\* The template with \1 replaced by the group's text.
RECURSIVE ExpandTemplate(_, _)
ExpandTemplate(t, g) ==
    IF t = <<>> THEN <<>>
    ELSE IF Len(t) >= 2 /\ t[1] = "\\" THEN
         (IF t[2] = "1" THEN <<g>> ELSE <<t[2]>>) \o ExpandTemplate(Tail(Tail(t)), g)
    ELSE <<t[1]>> \o ExpandTemplate(Tail(t), g)

RECURSIVE SubPairs(_, _, _, _)
SubPairs(group, follower, repl, s) ==
    IF s = <<>> THEN <<>>
    ELSE IF Len(s) >= 2 /\ s[1] \in group /\ s[2] = follower
         THEN ExpandTemplate(repl, s[1]) \o SubPairs(group, follower, repl, Tail(Tail(s)))
    ELSE <<s[1]>> \o SubPairs(group, follower, repl, Tail(s))

\* re.sub(r"([group])follower", repl, s).  The template is parsed when the call is
\* made, before any match is looked for, so a bad escape raises for every s.
re_sub(group, follower, repl, s) ==
    IF BadEscape(repl) THEN Raise("re.error") ELSE Ok(SubPairs(group, follower, repl, s))

HalfwidthKana == {"hw_ka"}
FullwidthKana == {"ka", "ga"}

\* unicodedata.normalize("NFKC", s) on the characters of the model
RECURSIVE NFKC(_)
NFKC(s) ==
    IF s = <<>> THEN <<>>
    ELSE IF Len(s) >= 2 /\ s[1] = "hw_ka" /\ s[2] = "hw_dakuten" THEN <<"ga">> \o NFKC(Tail(Tail(s)))
    ELSE (CASE s[1] = "fw_S" -> <<"S">>
            [] s[1] = "hw_ka" -> <<"ka">>
            [] s[1] = "hw_cho" -> <<"cho">>
            [] s[1] = "hw_dakuten" -> <<"dakuten">>
            [] s[1] = "ispace" -> <<" ">>
            [] s[1] = "sq_kg" -> <<"k", "g">>
            [] OTHER -> <<s[1]>>) \o NFKC(Tail(s))

normalize(s) ==
    Try(re_sub(HalfwidthKana, "-", REPL_HALFWIDTH, s), LAMBDA s1 :
    Try(re_sub(FullwidthKana, "minus", REPL_FULLWIDTH, s1), LAMBDA s2 :
    Ok(NFKC(s2))))

\* ------------------------------------------------------------ parse_date
\* A date text is written with the tokens "Y" (four year digits) and "M" (two
\* month digits) and two day digits; a datetime is the day number.
IsDayText(a, b) == IsDigit(a) /\ IsDigit(b)
MatchesFormat(s, fmt) ==
    CASE fmt = "%Y/%m/%d" ->
            Len(s) = 6 /\ s[1] = "Y" /\ s[2] = "/" /\ s[3] = "M" /\ s[4] = "/" /\ IsDayText(s[5], s[6])
      [] fmt = "%Y-%m-%d" ->
            Len(s) = 6 /\ s[1] = "Y" /\ s[2] = "-" /\ s[3] = "M" /\ s[4] = "-" /\ IsDayText(s[5], s[6])
      [] fmt = "%Y%m%d" ->
            Len(s) = 4 /\ s[1] = "Y" /\ s[2] = "M" /\ IsDayText(s[3], s[4])
DATE_FORMATS == <<"%Y/%m/%d", "%Y-%m-%d", "%Y%m%d">>

\* parse_date(s) for a str s
parse_date(s) ==
    IF \E k \in 1..Len(DATE_FORMATS) : MatchesFormat(s, DATE_FORMATS[k])
    THEN Ok(DigitsVal(SubSeq(s, Len(s) - 1, Len(s))))
    ELSE Raise("ValueError")

\* ------------------------------------------------- AmazonOrderBatch.omit
OMIT_WIDTH == 40

\* charwidth(c): 2 when east_asian_width(c) is F, W or A
WideChars == {"ka", "ga", "cho", "dakuten", "fw_S", "ispace", "refmark", "minus"}
charwidth(ch) == IF ch \in WideChars THEN 2 ELSE 1

Widths(s) == [k \in 1..Len(s) |-> charwidth(s[k])]
ReplaceChar(s, a, b) == [k \in 1..Len(s) |-> IF s[k] = a THEN b ELSE s[k]]

\* Python slices: x[k:] and x[:k] for k of either sign
SliceFrom(x, k) ==
    LET len == Len(x)
        lo == IF k < 0 THEN (IF len + k < 0 THEN 0 ELSE len + k) ELSE (IF k > len THEN len ELSE k)
    IN  SubSeq(x, lo + 1, len)
SliceTo(x, k) ==
    LET len == Len(x)
        hi == IF k < 0 THEN (IF len + k < 0 THEN 0 ELSE len + k) ELSE (IF k > len THEN len ELSE k)
    IN  SubSeq(x, 1, hi)

RECURSIVE OmitTail(_, _, _)
OmitTail(cw, t, maxlen) ==
    IF SumSeq(SliceFrom(cw, t - 1)) <= maxlen THEN OmitTail(cw, t - 1, maxlen) ELSE t

RECURSIVE OmitHead(_, _, _)
OmitHead(cw, h, maxlen) ==
    IF SumSeq(SliceTo(cw, h + 1)) <= maxlen THEN OmitHead(cw, h + 1, maxlen) ELSE h

Dots(n) == [k \in 1..n |-> "."]

omit(s, width) ==
    Try(normalize(s), LAMBDA ns :
    Let(Widths(ReplaceChar(ns, "ispace", " ")), LAMBDA cw :
    IF SumSeq(cw) <= width THEN Ok(s)
    ELSE
    Let(OmitTail(cw, -1, (width - 2) \div 2), LAMBDA t :
    Let(OmitHead(cw, 1, width - SumSeq(SliceFrom(cw, t)) - 2), LAMBDA h :
    Ok(SliceTo(s, h)
       \o Dots(width - SumSeq(SliceTo(cw, h)) - SumSeq(SliceFrom(cw, t)))
       \o SliceFrom(s, t))))))

\* ------------------------------------------------ order-reconciliation index
PSEUDO_LINES == {<<"order_total">>, <<"discount">>, <<"shipping">>, <<"points">>}
CC_CHARGE == <<"cc_charge">>

\* AmazonOrderItem(row): the cells kept of the row
AmazonOrderItem(row) == [orderid |-> row.orderid, name |-> row.name, amount |-> row.amount]

\* AmazonOrderBatch(row): a list holding one item-set that holds the row's item
AmazonOrderBatch(row) == << <<AmazonOrderItem(row)>> >>

\* AmazonOrderBatch.add(row): the item joins the last item-set
BatchAdd(batch, row) ==
    [batch EXCEPT ![Len(batch)] = Append(@, AmazonOrderItem(row))]

\* AmazonOrder(orderid); `applied` is history: the rows add_row was called with
AmazonOrder(orderid) ==
    [orderid |-> orderid, batches |-> <<>>, charges |-> <<>>, applied |-> <<>>]

ccc(row) == <<row.chargedate, row.chargeamount, row.method>>

add_charge(order, row) == [order EXCEPT !.charges = Append(@, ccc(row))]

AppendBatch(order, row) == [order EXCEPT !.batches = Append(@, AmazonOrderBatch(row))]

\* AddMarkerCharge without the removal of the equal triple
AddMarkerCharge_NoRemove(order, row) == add_charge(order, row)

\* The charged-to-credit-card marker row: an equal triple is removed, then appended.
AddMarkerCharge(order, row) ==
    add_charge(IF InSeq(ccc(row), order.charges)
               THEN [order EXCEPT !.charges = ListRemove(@, ccc(row))]
               ELSE order,
               row)

\* The digitally sold item: the order date becomes the charge date, the row opens
\* a batch and its charge is appended.
AddDigitalItem(order, row) ==
    LET row2 == [row EXCEPT !.chargedate = row.orderdate]
    IN  add_charge(AppendBatch(order, row2), row2)

add_row(order, row) ==
    Let([order EXCEPT !.applied = Append(@, row)], LAMBDA o :
    IF row.name \in PSEUDO_LINES THEN Ok(o)
    ELSE IF row.name = CC_CHARGE THEN Ok(AddMarkerCharge(o, row))
    ELSE IF row.chargeamount # <<>> THEN Ok(AddDigitalItem(o, row))
    ELSE IF row.amount # <<>> THEN Ok(AppendBatch(o, row))
    ELSE IF o.batches = <<>> THEN Raise("IndexError")
    ELSE Ok([o EXCEPT !.batches[Len(o.batches)] = BatchAdd(@, row)]))

\* ",".join / ";".join of texts
RECURSIVE Join(_, _)
Join(sep, ss) ==
    IF ss = <<>> THEN <<>>
    ELSE IF Len(ss) = 1 THEN ss[1]
    ELSE ss[1] \o <<sep>> \o Join(sep, Tail(ss))

\* omit over the items of an item-set, in order; the first exception propagates
RECURSIVE OmitNames(_, _)
OmitNames(itemset, k) ==
    IF k > Len(itemset) THEN Ok(<<>>)
    ELSE Try(omit(itemset[k].name, OMIT_WIDTH), LAMBDA v :
         Try(OmitNames(itemset, k + 1), LAMBDA rest : Ok(<<v>> \o rest)))

OmittedItemset(itemset) == Try(OmitNames(itemset, 1), LAMBDA vs : Ok(Join(",", vs)))

RECURSIVE OmitItemsets(_, _)
OmitItemsets(batch, k) ==
    IF k > Len(batch) THEN Ok(<<>>)
    ELSE Try(OmittedItemset(batch[k]), LAMBDA v :
         Try(OmitItemsets(batch, k + 1), LAMBDA rest : Ok(<<v>> \o rest)))

\* AmazonOrderBatch.omitted()
omitted(batch) == Try(OmitItemsets(batch, 1), LAMBDA vs : Ok(Join(";", vs)))

\* One pass of the inner loop of search over charge ci (0-based) of an order:
\* the entry appended, nothing, or the exception raised.
SearchCharge(order, ci, window, amount) ==
    Try(parse_date(order.charges[ci + 1][1]), LAMBDA chargedate :
    Try(ParseInt(order.charges[ci + 1][2]), LAMBDA chargeamount :
    IF ~(window[1] <= chargedate /\ chargedate <= window[2] /\ chargeamount = amount)
    THEN Ok(<<>>)
    ELSE IF ci + 1 > Len(order.batches) THEN Raise("IndexError")
    ELSE Try(omitted(order.batches[ci + 1]), LAMBDA txt : Ok(<< <<order.orderid, txt>> >>))))

\* The (order, charge) positions in the order the two loops visit them
RECURSIVE ChargePositions(_, _)
ChargePositions(index, k) ==
    IF k > Len(index) THEN <<>>
    ELSE [ci \in 1..Len(index[k].charges) |-> <<k, ci - 1>>] \o ChargePositions(index, k + 1)

RECURSIVE SearchFrom(_, _, _, _, _)
SearchFrom(index, todo, k, window, amount) ==
    IF k > Len(todo) THEN Ok(<<>>)
    ELSE Try(SearchCharge(index[todo[k][1]], todo[k][2], window, amount), LAMBDA found :
         Try(SearchFrom(index, todo, k + 1, window, amount), LAMBDA rest : Ok(found \o rest)))

\* AmazonJournal.search(date, amount) for a single date
search(index, date, amount) ==
    Let(ChargePositions(index, 1), LAMBDA todo :
        SearchFrom(index, todo, 1, <<date - 1, date + 2>>, amount))

\* ---- inputs of the order history
TextDay11 == <<"Y", "/", "M", "/", "1", "1">>
TextDay14 == <<"Y", "/", "M", "/", "1", "4">>
Text100 == <<"1", "0", "0">>
Text200 == <<"2", "0", "0">>
ITEM_NAME == <<"x">>
OrderIds == {"A", "B"}

AzRow(id, name, amount, cdate, camount) ==
    [orderid |-> id, name |-> name, amount |-> amount, orderdate |-> TextDay11,
     chargedate |-> cdate, chargeamount |-> camount, method |-> "Visa"]

AzRows ==
    {AzRow(id, <<"order_total">>, <<>>, <<>>, <<>>) : id \in OrderIds}
    \cup {AzRow(id, CC_CHARGE, <<>>, d, a) :
            id \in OrderIds, d \in {TextDay11, TextDay14}, a \in {Text100, Text200}}
    \cup {AzRow(id, ITEM_NAME, Text100, <<>>, Text100) : id \in OrderIds}
    \cup {AzRow(id, ITEM_NAME, a, <<>>, <<>>) : id \in OrderIds, a \in {Text100, <<>>}}

SearchDates == {10, 13}
SearchAmounts == {100, 200}

\* ---- AmazonJournal.read_csv, one row of the order history
PosOf(index, id) == CHOOSE k \in 1..Len(index) : index[k].orderid = id

AmazonReadRow(row) ==
    /\ pc = "amazon"
    /\ azN < MaxAzRows
    /\ \E known \in {\E k \in 1..Len(az) : az[k].orderid = row.orderid} :
       \E az1 \in {IF known THEN az ELSE Append(az, AmazonOrder(row.orderid))} :
       \E ord1 \in {IF known THEN azOrder ELSE Len(az1)} :
       \E r \in {add_row(az1[ord1], row)} :
           /\ azOrder' = ord1
           /\ azN' = azN + 1
           /\ az' = IF r.exc = "none" THEN [az1 EXCEPT ![ord1] = r.val] ELSE az1
           /\ pc' = IF r.exc = "none" THEN pc ELSE "aborted"
           /\ exc' = r.exc
    /\ UNCHANGED batchvars
    /\ UNCHANGED <<cfg, journal, i, prev_date, line, warnings, query, result>>

\* The order history is exhausted: the index is built.
AmazonReadEnd ==
    /\ pc = "amazon"
    /\ pc' = "rows"
    /\ UNCHANGED batchvars
    /\ UNCHANGED <<exc, cfg, az, azOrder, azN, journal, i, prev_date, line, warnings,
                   query, result>>

\* A call of AmazonJournal.search on the built index
Search(date, amount) ==
    /\ pc = "rows"
    /\ query' = [date |-> date, amount |-> amount]
    /\ result' = search(az, date, amount)
    /\ pc' = "searched"
    /\ UNCHANGED batchvars
    /\ UNCHANGED <<exc, cfg, az, azOrder, azN, journal, i, prev_date, line, warnings>>

\* ------------------------------------------------------ Journal.read_csv
AMAZON_CO_JP == <<"A", "M", "A", "Z", "O", "N", ".", "C", "O", ".", "J", "P">>
REFMARK == "refmark"

\* parse_fielddef(cols), cols already split at the commas and stripped: a name
\* maps to its 0-based position, a repeated name to the list of its positions.
RECURSIVE FieldDef(_, _, _)
FieldDef(cols, k, dic0) ==
    IF k > Len(cols) THEN dic0
    ELSE Let(dic0, LAMBDA dic :
         IF cols[k] \in DOMAIN dic
         THEN FieldDef(cols, k + 1,
                       [dic EXCEPT ![cols[k]] = [islist |-> TRUE, pos |-> Append(@.pos, k - 1)]])
         ELSE IF cols[k] # ""
         THEN FieldDef(cols, k + 1,
                       [name \in DOMAIN dic \cup {cols[k]} |->
                           IF name = cols[k] THEN [islist |-> FALSE, pos |-> <<k - 1>>]
                           ELSE dic[name]])
         ELSE FieldDef(cols, k + 1, dic))

parse_fielddef(cols) == FieldDef(cols, 1, [name \in {} |-> 0])

\* f.endswith("?") and f.rstrip("?") on the field names in use
EndsWithQ(f) == f \in {"date?", "memo?", "description?"}
RStripQ(f) ==
    CASE f = "date?" -> "date"
      [] f = "memo?" -> "memo"
      [] f = "description?" -> "description"
      [] OTHER -> f

\* datefield: the first key of fields, in insertion order, that is date or date?
DateField(cols) ==
    cols[CHOOSE k \in 1..Len(cols) :
            cols[k] \in {"date", "date?"} /\ \A j \in 1..(k - 1) : cols[j] \notin {"date", "date?"}]

\* line[fields[key]]
Cell(fields, ln, key) ==
    IF key \notin DOMAIN fields THEN Raise("KeyError")
    ELSE IF fields[key].islist THEN Raise("TypeError")
    ELSE IF fields[key].pos[1] >= Len(ln) THEN Raise("IndexError")
    ELSE Ok(ln[fields[key].pos[1] + 1])

\* c(f, defval): usedef says that the cell was empty and defval is returned
c(fields, ln, f) ==
    Let(Cell(fields, ln, IF EndsWithQ(f) THEN RStripQ(f) ELSE f), LAMBDA cell :
    IF cell.exc # "none" THEN [exc |-> cell.exc, val |-> <<>>, usedef |-> FALSE]
    ELSE
    Let(normalize(cell.val), LAMBDA nm :
    IF nm.exc # "none" THEN [exc |-> nm.exc, val |-> <<>>, usedef |-> FALSE]
    ELSE [exc |-> "none", val |-> nm.val, usedef |-> EndsWithQ(f) /\ nm.val = <<>>]))

RECURSIVE DropChar(_, _)
DropChar(s, ch) ==
    IF s = <<>> THEN <<>>
    ELSE IF s[1] = ch THEN DropChar(Tail(s), ch)
    ELSE <<s[1]>> \o DropChar(Tail(s), ch)

\* n(f): int(normalize(c(f)).replace(",", "") or "0")
n(fields, ln, f) ==
    Try(c(fields, ln, f), LAMBDA cv :
    Try(normalize(cv), LAMBDA nm :
    Let(DropChar(nm, ","), LAMBDA txt :
    ParseInt(IF txt = <<>> THEN <<"0">> ELSE txt))))

Abs(x) == IF x < 0 THEN 0 - x ELSE x

\* Lines 398-407: the three amount policies, chosen by KeyError
Amount(fields, ln, accounttype) ==
    Let(n(fields, ln, "+amount"), LAMBDA plus :
    Let(n(fields, ln, "-amount"), LAMBDA minus :
    Let(n(fields, ln, "amount"), LAMBDA single :
    IF plus.exc = "none" /\ minus.exc = "none" THEN Ok(Abs(plus.val) - Abs(minus.val))
    ELSE IF plus.exc \notin {"none", "KeyError"} THEN plus
    ELSE IF plus.exc = "none" /\ minus.exc # "KeyError" THEN minus
    ELSE IF single.exc = "none"
         THEN Ok(IF accounttype = "credit" THEN 0 - single.val ELSE single.val)
    ELSE IF single.exc # "KeyError" THEN single
    ELSE IF minus.exc # "none" THEN minus
    ELSE IF accounttype # "credit" THEN Raise("AssertionError")
    ELSE minus)))

\* Lines 408-415: memo from one column or from several joined by commas
NonEmpty(ss) == SelectSeq(ss, LAMBDA x : x # <<>>)
Memo(fields, ln) ==
    IF "memo" \notin DOMAIN fields THEN Ok(<<>>)
    ELSE IF fields["memo"].islist
    THEN IF \E k \in 1..Len(fields["memo"].pos) : fields["memo"].pos[k] >= Len(ln)
         THEN Raise("IndexError")
         ELSE Ok(Join(",", NonEmpty([k \in 1..Len(fields["memo"].pos) |->
                                        ln[fields["memo"].pos[k] + 1]])))
    ELSE Try(c(fields, ln, "memo"), LAMBDA cv : Ok(cv))

\* re.sub(" +", " ", s)
RECURSIVE CollapseSpaces(_)
CollapseSpaces(s) ==
    IF s = <<>> THEN <<>>
    ELSE IF Len(s) >= 2 /\ s[1] = " " /\ s[2] = " " THEN CollapseSpaces(Tail(s))
    ELSE <<s[1]>> \o CollapseSpaces(Tail(s))

StartsWith(s, p) == Len(s) >= Len(p) /\ SubSeq(s, 1, Len(p)) = p

\* str.replace(k, v): every occurrence, left to right
RECURSIVE StrReplace(_, _, _)
StrReplace(s, k, v) ==
    IF s = <<>> THEN <<>>
    ELSE IF k # <<>> /\ StartsWith(s, k) THEN v \o StrReplace(SubSeq(s, Len(k) + 1, Len(s)), k, v)
    ELSE <<s[1]>> \o StrReplace(Tail(s), k, v)

\* Lines 428-430: t.memo.replace(k, v) is evaluated for each entry and its value is
\* bound to nothing; a str is immutable, so t.memo is what it was.
SubstMemo(memo, substdic) == memo

\* Lines 431-435: a memo that repeats the description and a comma loses them
StripDescription(memo, description) ==
    IF StartsWith(memo, description) /\ StartsWith(SubSeq(memo, Len(description) + 1, Len(memo)), <<",">>)
    THEN SubSeq(memo, Len(description) + 2, Len(memo))
    ELSE memo

\* set.add(t): Transaction defines neither __eq__ nor __hash__, so the set holds
\* objects by identity (oid); a new object is always a new member.
JournalAdd(j, t) == j \cup {t}

Skip(w) == [outcome |-> "skip", exc |-> "none", t |-> <<>>, warn |-> w]
Abort(e, w) == [outcome |-> "raise", exc |-> e, t |-> <<>>, warn |-> w]

\* Lines 418-426: the memo after the order lookup, and whether a warning was written
Reconcile(config, index, date, description, amount, memo) ==
    IF ~(config.amazon /\ description = AMAZON_CO_JP)
    THEN [exc |-> "none", memo |-> memo, warn |-> 0]
    ELSE Let(search(index, date, 0 - amount), LAMBDA txns :
         IF txns.exc # "none" THEN [exc |-> txns.exc, memo |-> memo, warn |-> 0]
         ELSE IF Len(txns.val) # 1 THEN [exc |-> "none", memo |-> memo, warn |-> 1]
         ELSE [exc |-> "none", memo |-> txns.val[1][2], warn |-> 0])

\* Lines 436-443: the commission rule, then fitid and the insertion
Finish(fields, ln, idx, date, description, amount, memo, warn) ==
    IF "commission" \notin DOMAIN fields
    THEN [outcome |-> "accept", exc |-> "none", warn |-> warn,
          t |-> [oid |-> idx, date |-> date, description |-> description,
                 amount |-> amount, memo |-> memo, fitid |-> idx]]
    ELSE IF description = <<>> \/ description[1] = REFMARK THEN Skip(warn)
    ELSE IF amount # 0
    THEN [outcome |-> "accept", exc |-> "none", warn |-> warn,
          t |-> [oid |-> idx, date |-> date, description |-> description,
                 amount |-> amount, memo |-> memo, fitid |-> idx]]
    ELSE Let(n(fields, ln, "commission"), LAMBDA comm :
         IF comm.exc # "none" THEN Abort(comm.exc, warn)
         ELSE [outcome |-> "accept", exc |-> "none", warn |-> warn,
               t |-> [oid |-> idx, date |-> date, description |-> description,
                      amount |-> 0 - comm.val, memo |-> memo, fitid |-> idx]])

\* Lines 390-443: the body of the loop for data row number idx (0-based)
ReadLine(config, index, ln, idx, prev) ==
    Let(c(config.fields, ln, config.datefield), LAMBDA dcell :
    IF dcell.exc = "ValueError" THEN Skip(0)
    ELSE IF dcell.exc # "none" THEN Abort(dcell.exc, 0)
    ELSE
    Let(IF dcell.usedef THEN Ok(prev) ELSE parse_date(dcell.val), LAMBDA date :
    IF date.exc = "ValueError" THEN Skip(0)
    ELSE
    Let(c(config.fields, ln, "description"), LAMBDA desc0 :
    IF desc0.exc # "none" THEN Abort(desc0.exc, 0)
    ELSE
    Let(Amount(config.fields, ln, config.accounttype), LAMBDA amt :
    IF amt.exc # "none" THEN Abort(amt.exc, 0)
    ELSE
    Let(Memo(config.fields, ln), LAMBDA memo0 :
    IF memo0.exc # "none" THEN Abort(memo0.exc, 0)
    ELSE
    Let(CollapseSpaces(desc0.val), LAMBDA description :
    Let(Reconcile(config, index, date.val, description, amt.val, CollapseSpaces(memo0.val)),
        LAMBDA rec :
    IF rec.exc # "none" THEN Abort(rec.exc, 0)
    ELSE
    Let(StripDescription(SubstMemo(rec.memo, config.subst), description), LAMBDA memo :
    Finish(config.fields, ln, idx, date.val, description, amt.val, memo, rec.warn)))))))))

\* ---- inputs of Journal.read_csv
\* fields and datefield are computed once, before the first row (lines 365-366)
Config(body, accounttype, amazon, subst) ==
    [body |-> body, accounttype |-> accounttype, amazon |-> amazon,
     subst |-> subst, has_subst |-> subst # <<>>,
     fields |-> parse_fielddef(body), datefield |-> DateField(body)]

SUBST_TABLE == << <<(<<"k">>), (<<"K", "K">>)>> >>

Configs ==
    {Config(<<"date", "description", "amount", "memo">>, a, FALSE, <<>>) : a \in {"credit", "bank"}}
    \cup {Config(<<"date", "description", "+amount", "-amount">>, "bank", FALSE, <<>>),
          Config(<<"date", "description", "-amount">>, "credit", FALSE, <<>>),
          Config(<<"date", "description", "-amount">>, "bank", FALSE, <<>>),
          Config(<<"date", "description", "">>, "credit", FALSE, <<>>),
          Config(<<"date", "description", "amount", "commission">>, "credit", FALSE, <<>>),
          Config(<<"date", "description", "amount", "memo", "memo">>, "credit", FALSE, <<>>),
          Config(<<"date", "description", "amount", "memo">>, "credit", FALSE, SUBST_TABLE),
          Config(<<"date?", "description", "amount">>, "credit", FALSE, <<>>),
          Config(<<"date", "description", "amount">>, "credit", TRUE, <<>>)}

\* the arguments where read_csv is not what is exercised
NoCfg == Config(<<"date", "description", "amount">>, "credit", TRUE, <<>>)

CellsOf(col) ==
    CASE col \in {"date", "date?"} ->
            {<<"Y", "/", "M", "/", "1", "0">>, <<"Y", "M", "1", "1">>, <<"1", "0", "/", "M">>, <<>>}
      [] col = "description" -> {AMAZON_CO_JP, <<"S">>, <<REFMARK, "S">>, <<>>}
      [] col \in {"amount", "+amount", "-amount"} -> {<<"1", "0", "0">>, <<"-", "1", "0", "0">>, <<>>}
      [] col = "memo" -> {<<"S", ",", "k">>, <<"k", " ", " ", "k">>}
      [] col = "commission" -> {<<"5">>, <<>>}
      [] OTHER -> {<<>>}

RECURSIVE Lines(_)
Lines(body) ==
    IF body = <<>> THEN {<<>>}
    ELSE {<<cell>> \o rest : cell \in CellsOf(body[1]), rest \in Lines(Tail(body))}

\* One data row of the statement: accepted, skipped, or the exception that ends the file
ReadRow(ln) ==
    /\ pc = "rows"
    /\ i < MaxRows
    /\ \E r \in {ReadLine(cfg, az, ln, i, prev_date)} :
       /\ line' = ln
       /\ warnings' = warnings + r.warn
       /\ pc' = IF r.outcome = "raise" THEN "aborted" ELSE pc
       /\ exc' = r.exc
       /\ i' = IF r.outcome = "raise" THEN i ELSE i + 1
       /\ journal' = IF r.outcome = "accept" THEN JournalAdd(journal, r.t) ELSE journal
       /\ prev_date' = IF r.outcome = "accept" THEN r.t.date ELSE prev_date
    /\ UNCHANGED batchvars
    /\ UNCHANGED <<cfg, az, azOrder, azN, query, result>>

\* The reader is exhausted: read_csv returns.
ReadEnd ==
    /\ pc = "rows"
    /\ pc' = "read"
    /\ UNCHANGED batchvars
    /\ UNCHANGED <<exc, cfg, az, azOrder, azN, journal, i, prev_date, line, warnings,
                   query, result>>

\* ------------------------------------------------------ Journal.write_ofx
\* start_date / end_date as given on the command line: "" (not given) or %Y%m%d
DateBounds == {<<>>, <<"Y", "M", "1", "0">>, <<"Y", "M", "1", "1">>}

MinOf(S) == CHOOSE x \in S : \A y \in S : x <= y
MaxOf(S) == CHOOSE x \in S : \A y \in S : y <= x

\* sorted by fitid; list.sort is stable, so equal keys keep the set's iteration order
RECURSIVE SortByFitid(_)
SortByFitid(S0) ==
    Let(S0, LAMBDA S :
    IF S = {} THEN <<>>
    ELSE Let(CHOOSE x \in S : \A y \in S : x.fitid < y.fitid \/ (x.fitid = y.fitid /\ x.oid <= y.oid),
             LAMBDA t : <<t>> \o SortByFitid(S \ {t})))

\* One <STMTTRN> block; normalize is called on the description and on the memo
Block(t) ==
    Try(normalize(t.description), LAMBDA d :
    Try(normalize(t.memo), LAMBDA m :
    Ok([transactiontype |-> IF 0 <= t.amount THEN "CREDIT" ELSE "DEBIT",
        datetime |-> t.date,
        amount |-> Abs(t.amount),
        fitid |-> t.fitid,
        description |-> d,
        memo |-> m])))

RECURSIVE Blocks(_, _)
Blocks(sorted, k) ==
    IF k > Len(sorted) THEN Ok(<<>>)
    ELSE Try(Block(sorted[k]), LAMBDA b :
         Try(Blocks(sorted, k + 1), LAMBDA rest : Ok(<<b>> \o rest)))

NoFile(e) == [exc |-> e, val |-> "nofile"]

\* in_period(d) with the parsed bounds; an absent bound does not restrict
InPeriod(start_date, sd, end_date, ed, d) ==
    (start_date = <<>> \/ sd <= d) /\ (end_date = <<>> \/ d <= ed)

\* write_ofx(pathname, start_date, end_date): "nofile" when it returns at once,
\* the document written, or the exception raised before the file is opened
write_ofx(j, start_date, end_date) ==
    IF Cardinality(j) < 1 THEN NoFile("none")
    ELSE
    Let(IF start_date # <<>> THEN parse_date(start_date) ELSE Ok(0), LAMBDA sd :
    IF sd.exc # "none" THEN NoFile(sd.exc)
    ELSE
    Let(IF end_date # <<>> THEN parse_date(end_date) ELSE Ok(0), LAMBDA ed :
    IF ed.exc # "none" THEN NoFile(ed.exc)
    ELSE
    Let({t \in j : t.amount # 0 /\ InPeriod(start_date, sd.val, end_date, ed.val, t.date)},
        LAMBDA subset :
    IF subset = {} THEN NoFile("ValueError")
    ELSE
    Let(SortByFitid(subset), LAMBDA sorted :
    Let(Blocks(sorted, 1), LAMBDA blocks :
    IF blocks.exc # "none" THEN NoFile(blocks.exc)
    ELSE [exc |-> "none",
          val |-> "file",
          firstdate |-> MinOf({t.date : t \in subset}),
          lastdate |-> MaxOf({t.date : t \in subset}),
          blocks |-> blocks.val,
          totalamount |-> SumSeq([k \in 1..Len(sorted) |-> sorted[k].amount])])))))

WriteOfx(start_date, end_date) ==
    /\ pc = "read"
    /\ \E r \in {write_ofx(journal, start_date, end_date)} :
       /\ query' = [start_date |-> start_date, end_date |-> end_date]
       /\ result' = r
       /\ pc' = IF r.exc = "none" THEN "written" ELSE "failed"
       /\ exc' = r.exc
    /\ UNCHANGED batchvars
    /\ UNCHANGED <<cfg, az, azOrder, azN, journal, i, prev_date, line, warnings>>

\* a run that is not the loop of main holds no batch
NoBatch == files = <<>> /\ fileno = 0 /\ attempted = <<>>

\* ---- the conversion of one file: read_csv, then write_ofx
Init ==
    /\ cfg \in Configs
    /\ pc = IF cfg.amazon THEN "amazon" ELSE "rows"
    /\ exc = "none"
    /\ az = <<>>
    /\ azOrder = 0
    /\ azN = 0
    /\ journal = {}
    /\ i = 0
    /\ prev_date = 0
    /\ line = <<>>
    /\ warnings = 0
    /\ query = <<>>
    /\ result = <<>>
    /\ NoBatch

Next ==
    \/ \E row \in AzRows : AmazonReadRow(row)
    \/ AmazonReadEnd
    \/ \E ln \in Lines(cfg.body) : ReadRow(ln)
    \/ ReadEnd
    \/ \E s \in DateBounds, e \in DateBounds : WriteOfx(s, e)

Spec == Init /\ [][Next]_vars

\* ---- write_ofx on its own: any Journal a caller can hold
MaxTxns == 3
TxnDates == {10, 11}
TxnAmounts == {0, 100, -100}

Txn(k, d, a) ==
    [oid |-> k, date |-> d, description |-> <<"S">>, amount |-> a, memo |-> <<>>, fitid |-> k]

RECURSIVE Journals(_)
Journals(k) ==
    IF k = 0 THEN {{}}
    ELSE Let(Journals(k - 1), LAMBDA rest :
             rest \cup {j \cup {Txn(k - 1, d, a)} : j \in rest, d \in TxnDates, a \in TxnAmounts})

InitWrite ==
    /\ cfg = NoCfg
    /\ pc = "read"
    /\ exc = "none"
    /\ az = <<>>
    /\ azOrder = 0
    /\ azN = 0
    /\ journal \in Journals(MaxTxns)
    /\ i = 0
    /\ prev_date = 0
    /\ line = <<>>
    /\ warnings = 0
    /\ query = <<>>
    /\ result = <<>>
    /\ NoBatch

NextWrite == \E s \in DateBounds, e \in DateBounds : WriteOfx(s, e)

SpecWrite == InitWrite /\ [][NextWrite]_vars


InitAz ==
    /\ pc = "amazon"
    /\ exc = "none"
    /\ cfg = NoCfg
    /\ az = <<>>
    /\ azOrder = 0
    /\ azN = 0
    /\ journal = {}
    /\ i = 0
    /\ prev_date = 0
    /\ line = <<>>
    /\ warnings = 0
    /\ query = <<>>
    /\ result = <<>>
    /\ NoBatch

NextAz ==
    \/ \E row \in AzRows : AmazonReadRow(row)
    \/ AmazonReadEnd
    \/ \E d \in SearchDates, a \in SearchAmounts : Search(d, a)

SpecAz == InitAz /\ [][NextAz]_vars

\* ---- omit on its own: the item names a batch can hold
MaxRun == 21
OmitChars == {"a", "ka", "sq_kg"}
Rep(ch, k) == [j \in 1..k |-> ch]
OmitInputs == {Rep(a, k) \o Rep(b, m) : a \in OmitChars, b \in OmitChars, k \in 0..MaxRun, m \in 0..MaxRun}

InitOmit ==
    /\ pc = "omit"
    /\ exc = "none"
    /\ cfg = NoCfg
    /\ az = <<>>
    /\ azOrder = 0
    /\ azN = 0
    /\ journal = {}
    /\ i = 0
    /\ prev_date = 0
    /\ line = <<>>
    /\ warnings = 0
    /\ query \in OmitInputs
    /\ result = <<>>
    /\ NoBatch

\* AmazonOrderBatch.omit(query, 40)
Omit ==
    /\ pc = "omit"
    /\ \E r \in {omit(query, OMIT_WIDTH)} :
       /\ result' = r
       /\ exc' = r.exc
       /\ pc' = "omitted"
    /\ UNCHANGED batchvars
    /\ UNCHANGED <<cfg, az, azOrder, azN, journal, i, prev_date, line, warnings, query>>

NextOmit == Omit

SpecOmit == InitOmit /\ [][NextOmit]_vars

\* ---- main: the loop over the input files (lines 761-782), without --amazon
MaxFiles == 3

\* an input file: whether its name ends with .csv, and whether open() succeeds
FileKinds == [csv : BOOLEAN, readable : BOOLEAN]

RECURSIVE Batches(_)
Batches(k) ==
    IF k = 0 THEN {<<>>}
    ELSE Let(Batches(k - 1), LAMBDA shorter :
             shorter \cup {Append(b, f) : b \in {x \in shorter : Len(x) = k - 1}, f \in FileKinds})

\* the parameters of the issuer, the same for every file of the invocation
MainConfigs == {Config(<<"date", "description", "amount">>, a, FALSE, <<>>) : a \in {"credit", "bank"}}

InitMain ==
    /\ cfg \in MainConfigs
    /\ files \in Batches(MaxFiles) \ {<<>>}
    /\ fileno = 0
    /\ attempted = <<>>
    /\ pc = "main"
    /\ exc = "none"
    /\ az = <<>>
    /\ azOrder = 0
    /\ azN = 0
    /\ journal = {}
    /\ i = 0
    /\ prev_date = 0
    /\ line = <<>>
    /\ warnings = 0
    /\ query = <<>>
    /\ result = <<>>

\* Lines 766-778 and 365-382: the loop takes up the next file: the extension test,
\* a new Journal, and read_csv up to the first data row.
StartFile ==
    /\ pc = "main"
    /\ fileno < Len(files)
    /\ fileno' = fileno + 1
    /\ attempted' = Append(attempted, fileno + 1)
    /\ \E f \in {files[fileno + 1]} :
       /\ pc' = IF f.csv /\ f.readable THEN "rows" ELSE "aborted"
       /\ exc' = IF ~f.csv THEN "ValueError"
                 ELSE IF ~f.readable THEN "FileNotFoundError"
                 ELSE "none"
    /\ journal' = {}
    /\ i' = 0
    /\ prev_date' = 0
    /\ line' = <<>>
    /\ UNCHANGED <<cfg, az, azOrder, azN, warnings, query, result, files>>

\* Lines 779-781 returned: the loop goes on to the next file.
FileDone ==
    /\ pc = "written"
    /\ pc' = "main"
    /\ UNCHANGED <<exc, cfg, az, azOrder, azN, journal, i, prev_date, line, warnings,
                   query, result, files, fileno, attempted>>

\* No statement of main catches an exception: it leaves both loops and main;
\* __main__ (lines 804-811) logs the traceback and raises it again.
Propagate ==
    /\ pc \in {"aborted", "failed"}
    /\ pc' = "exited"
    /\ UNCHANGED <<exc, cfg, az, azOrder, azN, journal, i, prev_date, line, warnings,
                   query, result, files, fileno, attempted>>

\* The loops are exhausted: main returns.
MainReturn ==
    /\ pc = "main"
    /\ fileno = Len(files)
    /\ pc' = "done"
    /\ UNCHANGED <<exc, cfg, az, azOrder, azN, journal, i, prev_date, line, warnings,
                   query, result, files, fileno, attempted>>

NextMain ==
    \/ StartFile
    \/ \E ln \in Lines(cfg.body) : ReadRow(ln)
    \/ ReadEnd
    \/ \E s \in DateBounds, e \in DateBounds : WriteOfx(s, e)
    \/ FileDone
    \/ Propagate
    \/ MainReturn

SpecMain == InitMain /\ [][NextMain]_vars

\* ---- Timezone, gettimezone and Journal.ofxdatetime
\* str.find(ch): the 0-based position of the first ch, or -1
Find(s, ch) ==
    IF \E k \in 1..Len(s) : s[k] = ch
    THEN (CHOOSE k \in 1..Len(s) : s[k] = ch /\ \A j \in 1..(k - 1) : s[j] # ch) - 1
    ELSE -1

\* str.upper() on the letters in use
UpperChar(ch) ==
    CASE ch = "p" -> "P" [] ch = "s" -> "S" [] ch = "t" -> "T" [] OTHER -> ch
Upper(s) == [k \in 1..Len(s) |-> UpperChar(s[k])]

\* datetime.timedelta(hours=h), normalised as Python keeps it: 0 <= seconds < 86400
SECONDS_PER_DAY == 86400
SECONDS_PER_HOUR == 3600
Timedelta(hours) ==
    [days |-> (hours * SECONDS_PER_HOUR) \div SECONDS_PER_DAY,
     seconds |-> (hours * SECONDS_PER_HOUR) % SECONDS_PER_DAY]

\* Timezone(tzname, utcoffset): utcoffset comes in POSIX style and is negated
Timezone(tzname, utcoffset) == [tzname |-> tzname, utcoffset |-> Timedelta(0 - utcoffset)]

gettimezone(timezone) ==
    Let(IF Find(timezone, "+") < 0 THEN Find(timezone, "-") ELSE Find(timezone, "+"), LAMBDA p :
    IF p < 0 THEN Raise("ValueError")
    ELSE Try(ParseInt(SliceFrom(timezone, p)), LAMBDA offset :
         Ok(Timezone(Upper(SliceTo(timezone, p)), offset))))

\* the decimal digits of a natural number
RECURSIVE IntText(_)
IntText(k) == IF k < 10 THEN <<Digits[k + 1]>> ELSE IntText(k \div 10) \o <<Digits[(k % 10) + 1]>>

\* format(x, "+.2f") of a number given in hundredths
FormatF2(hundredths) ==
    <<IF hundredths < 0 THEN "-" ELSE "+">>
    \o IntText(Abs(hundredths) \div 100)
    \o <<".", Digits[((Abs(hundredths) % 100) \div 10) + 1], Digits[(Abs(hundredths) % 10) + 1]>>

\* dt.strftime("%Y%m%d%H%M%S") of the datetime of day d
Stamp(d) == <<"Y", "M", Digits[(d \div 10) + 1], Digits[(d % 10) + 1], "H", "M", "S">>

\* Journal.ofxdatetime(dt); dt.tzinfo is <<>> for a naive datetime
ofxdatetime(dt) ==
    IF dt.tzinfo = <<>> THEN Stamp(dt.day)
    ELSE Stamp(dt.day)
         \o <<"[">>
         \o FormatF2((dt.tzinfo.utcoffset.seconds * 100) \div SECONDS_PER_HOUR)
         \o <<":">> \o dt.tzinfo.tzname \o <<"]">>

\* ---- ofxdatetime on its own: the timezone texts of the configuration
MaxOffset == 12
TzNames == {<<"J", "S", "T">>, <<"p", "s", "t">>}
TzTexts ==
    {name \o <<sign>> \o IntText(h) : name \in TzNames, sign \in {"+", "-"}, h \in 0..MaxOffset}
    \cup {<<"J", "S", "T">>}

InitTz ==
    /\ pc = "tz"
    /\ query \in [timezone : TzTexts \cup {<<>>}, day : TxnDates]
    /\ exc = "none"
    /\ cfg = NoCfg
    /\ az = <<>>
    /\ azOrder = 0
    /\ azN = 0
    /\ journal = {}
    /\ i = 0
    /\ prev_date = 0
    /\ line = <<>>
    /\ warnings = 0
    /\ result = <<>>
    /\ NoBatch

\* tzinfo = gettimezone(tz) if tz else None (line 760), a datetime made with it
\* (line 446), and its rendering
OfxDatetime ==
    /\ pc = "tz"
    /\ \E r \in {IF query.timezone = <<>>
                 THEN Ok(ofxdatetime([day |-> query.day, tzinfo |-> <<>>]))
                 ELSE Try(gettimezone(query.timezone), LAMBDA tzinfo :
                          Ok(ofxdatetime([day |-> query.day, tzinfo |-> tzinfo])))} :
       /\ result' = r
       /\ exc' = r.exc
       /\ pc' = "stamped"
    /\ UNCHANGED batchvars
    /\ UNCHANGED <<cfg, az, azOrder, azN, journal, i, prev_date, line, warnings, query>>

NextTz == OfxDatetime

SpecTz == InitTz /\ [][NextTz]_vars

\* ================================================================ claims
\* ---- helpers of the claims
Count(seq, x) == Cardinality({k \in 1..Len(seq) : seq[k] = x})

IsMarkerRow(row) == row.name = CC_CHARGE
IsDigitalRow(row) ==
    row.name \notin PSEUDO_LINES /\ row.name # CC_CHARGE /\ row.chargeamount # <<>>

\* the triple a digitally sold item records: its charge date is the order date
DigitalTriple(row) == <<row.orderdate, row.chargeamount, row.method>>

\* charge events of the index that lie in the window of `date` with amount `amount`
Matching(index, date, amount) ==
    {pos \in {<<k, ci>> : k \in 1..Len(index), ci \in 1..MaxAzRows} :
        /\ pos[2] <= Len(index[pos[1]].charges)
        /\ LET ch == index[pos[1]].charges[pos[2]]
               day == DigitsVal(SubSeq(ch[1], Len(ch[1]) - 1, Len(ch[1])))
           IN  /\ date - 1 <= day /\ day <= date + 2
               /\ DigitsVal(ch[2]) = amount}

\* C4 (as claimed): search(date, amount) returns, and returns one entry per charge
\* event in the window [date - 1, date + 2] whose amount equals the argument.
C4_SearchReturnsEveryMatch ==
    pc = "searched" =>
        /\ result.exc = "none"
        /\ Len(result.val) = Cardinality(Matching(az, query.date, query.amount))

\* C9 (as claimed): no order's charge list holds the same triple twice, whichever
\* kind of row recorded it.
C9_NoDuplicateCharge ==
    \A k \in 1..Len(az) : \A ch \in {az[k].charges[c1] : c1 \in 1..Len(az[k].charges)} :
        Count(az[k].charges, ch) = 1

\* C9 (amended): a triple occurs more than once in an order's charge list only when
\* a digitally sold item row applied to that order recorded it; marker rows with an
\* equal triple collapse to one charge event.
C9_MarkerChargesCollapse ==
    \A k \in 1..Len(az) : \A ch \in {az[k].charges[c1] : c1 \in 1..Len(az[k].charges)} :
        Count(az[k].charges, ch) > 1 =>
            \E r \in 1..Len(az[k].applied) :
                IsDigitalRow(az[k].applied[r]) /\ DigitalTriple(az[k].applied[r]) = ch

\* C9 witness: two marker rows with the same triple were applied to an order that got
\* no digital item, and its charge list holds the triple once.
C9_Witness ==
    \E k \in 1..Len(az) :
        /\ \E r1, r2 \in 1..Len(az[k].applied) :
              /\ r1 < r2
              /\ IsMarkerRow(az[k].applied[r1]) /\ IsMarkerRow(az[k].applied[r2])
              /\ ccc(az[k].applied[r1]) = ccc(az[k].applied[r2])
              /\ Count(az[k].charges, ccc(az[k].applied[r1])) = 1
        /\ \A r \in 1..Len(az[k].applied) : ~IsDigitalRow(az[k].applied[r])

\* the display text of a batch whose item names are short enough to be kept whole
DisplayText(batch) ==
    Join(";", [k \in 1..Len(batch) |-> Join(",", [m \in 1..Len(batch[k]) |-> batch[k][m].name])])

\* ---- the data row read_csv handled last
RowHandled == line # <<>>
HasCol(name) == name \in DOMAIN cfg.fields
CellOf(name) == line[cfg.fields[name].pos[1] + 1]
DateReadable == HasCol("date") /\ parse_date(CellOf("date")).exc = "none"
IntOf(cell) == IF DropChar(cell, ",") = <<>> THEN 0 ELSE ParseInt(DropChar(cell, ",")).val
RowTxns == {t \in journal : t.fitid = i - 1}

\* C1 (as claimed): read_csv works through the data rows, skipping a row whose date
\* does not parse and accepting the others, and the fitids of the accepted
\* transactions are exactly 0, 1, 2, ... without a gap.
C1_DenseFitids ==
    /\ {t.fitid : t \in journal} = 0..(Cardinality(journal) - 1)
    /\ (RowHandled /\ HasCol("date") /\ HasCol("amount") /\ ~HasCol("commission")) =>
           /\ pc # "aborted"
           /\ DateReadable => journal # {}

\* C2 (as claimed): the mapped field names choose the amount: |+amount| - |-amount|
\* when both are mapped, else the amount column negated for a credit account and
\* as it stands otherwise, else the -amount column for a credit account; any other
\* mapping is an error that ends the file.
C2_AmountPolicy ==
    (RowHandled /\ DateReadable /\ ~HasCol("commission")) =>
        IF HasCol("+amount") /\ HasCol("-amount")
        THEN /\ pc # "aborted"
             /\ \E t \in RowTxns :
                   t.amount = Abs(IntOf(CellOf("+amount"))) - Abs(IntOf(CellOf("-amount")))
        ELSE IF HasCol("amount")
        THEN /\ pc # "aborted"
             /\ \E t \in RowTxns :
                   t.amount = IF cfg.accounttype = "credit" THEN 0 - IntOf(CellOf("amount"))
                              ELSE IntOf(CellOf("amount"))
        ELSE IF HasCol("-amount") /\ cfg.accounttype = "credit"
        THEN /\ pc # "aborted"
             /\ \E t \in RowTxns : t.amount = IntOf(CellOf("-amount"))
        ELSE pc = "aborted"

\* C3 (as claimed): a row described as AMAZON.CO.JP, read with an order index, is
\* inserted whatever the lookup finds: with the display text of the match as its
\* memo when exactly one charge matches, else with its own memo and a warning.
C3_ReconcileKeepsRow ==
    (RowHandled /\ cfg.amazon /\ DateReadable /\ HasCol("amount")
       /\ CellOf("description") = AMAZON_CO_JP) =>
        /\ pc # "aborted"
        /\ \E t \in RowTxns :
              LET found == Matching(az, t.date, 0 - t.amount)
              IN  IF Cardinality(found) = 1
                  THEN \E pos \in found :
                          /\ pos[2] <= Len(az[pos[1]].batches)
                          /\ t.memo = DisplayText(az[pos[1]].batches[pos[2]])
                  ELSE t.memo = <<>> /\ warnings >= 1

\* the substitution table applied to a text, entry after entry
RECURSIVE Substituted(_, _, _)
Substituted(text, table, k) ==
    IF k > Len(table) THEN text
    ELSE Substituted(StrReplace(text, table[k][1], table[k][2]), table, k + 1)

\* C5 (as claimed): with a substitution table configured, the memo of an accepted
\* transaction is the memo cell with every entry of the table applied.
C5_SubstApplied ==
    (RowHandled /\ cfg.has_subst /\ DateReadable /\ HasCol("amount") /\ HasCol("memo")) =>
        /\ pc # "aborted"
        /\ \E t \in RowTxns :
              t.memo = StripDescription(Substituted(CollapseSpaces(CellOf("memo")), cfg.subst, 1),
                                        t.description)

\* C8 (as claimed): membership of a Journal is by value: the rows read so far leave
\* one record per distinct combination of field values, and the row just read has
\* its record.
C8_OneRecordPerValue ==
    /\ \A t1, t2 \in journal :
          (t1.date = t2.date /\ t1.description = t2.description
             /\ t1.amount = t2.amount /\ t1.memo = t2.memo) => t1 = t2
    /\ (RowHandled /\ DateReadable /\ HasCol("amount") /\ ~HasCol("commission")) =>
          \E t \in journal :
             /\ t.date = parse_date(CellOf("date")).val
             /\ t.description = CollapseSpaces(CellOf("description"))

\* ---- write_ofx
\* the transactions write_ofx is to emit: non-zero and inside the bounds
Emitted ==
    {t \in journal :
        /\ t.amount # 0
        /\ (query.start_date = <<>> \/ parse_date(query.start_date).val <= t.date)
        /\ (query.end_date = <<>> \/ t.date <= parse_date(query.end_date).val)}
Written == pc \in {"written", "failed"}

\* C6 (as claimed): the document has one block per transaction that is non-zero and
\* inside the bounds, in ascending fitid order.
C6_BlocksAreTheFiltered ==
    Written =>
        \/ journal = {}
        \/ /\ result.val = "file"
           /\ Len(result.blocks) = Cardinality(Emitted)
           /\ {result.blocks[k].fitid : k \in 1..Len(result.blocks)} = {t.fitid : t \in Emitted}
           /\ \A k1, k2 \in 1..Len(result.blocks) :
                 k1 < k2 => result.blocks[k1].fitid < result.blocks[k2].fitid

\* C7 (as claimed): write_ofx ends without an error also when it has nothing to
\* emit: an empty Journal writes no file, and a Journal whose every transaction is
\* filtered out gets its document, with no block in it.
C7_WriteNeverFails ==
    (Written /\ Emitted = {}) =>
        /\ result.exc = "none"
        /\ result.val = IF journal = {} THEN "nofile" ELSE "file"

\* ---- omit
\* the display width of a text: the widths of the characters of its NFKC form
VisualWidth(s) == SumSeq(Widths(ReplaceChar(NFKC(s), "ispace", " ")))

\* C10 (as claimed): omit(s, 40) returns s when its display width is at most 40,
\* and else a text of display width 40.
C10_OmitWidth ==
    pc = "omitted" =>
        /\ result.exc = "none"
        /\ IF VisualWidth(query) <= OMIT_WIDTH THEN result.val = query
           ELSE VisualWidth(result.val) = OMIT_WIDTH

\* ---- the optional date column
\* the date of the row accepted before the row handled last; prev_date starts as
\* a fixed day (line 382), day 0 here
PrevAccepted == {t \in journal : t.fitid < i - 1}
PrevResolvedDate ==
    IF PrevAccepted = {} THEN 0
    ELSE (CHOOSE t \in PrevAccepted : \A u \in PrevAccepted : u.fitid <= t.fitid).date

\* C11 (as claimed): with the date column mapped as date?, a row whose date cell
\* is filled in is accepted with that date, a row whose date cell is empty is
\* accepted with the date of the row accepted before it, and the file is not
\* aborted.
C11_OptionalDate ==
    (RowHandled /\ cfg.datefield = "date?" /\ HasCol("amount")) =>
        /\ pc # "aborted"
        /\ CellOf("date?") = <<>> =>
              \E t \in RowTxns : t.date = PrevResolvedDate
        /\ (CellOf("date?") # <<>> /\ parse_date(CellOf("date?")).exc = "none") =>
              \E t \in RowTxns : t.date = parse_date(CellOf("date?")).val

\* C12 (as claimed): whatever happens to a file of the batch, the files after it
\* are still taken up: when the invocation has ended, every file of the batch has
\* been attempted, in command-line order.
C12_EveryFileAttempted ==
    pc \in {"done", "exited"} =>
        attempted = [k \in 1..Len(files) |-> k]

\* ---- the rendering of a timestamp
\* the zone's offset from UTC in hours: the number of the POSIX-style text negated
\* (JST-9 is 9 hours east of UTC, PST+8 is 8 hours west)
SignPos(timezone) ==
    IF Find(timezone, "+") < 0 THEN Find(timezone, "-") ELSE Find(timezone, "+")
ActualOffset(timezone) == 0 - ParseInt(SliceFrom(timezone, SignPos(timezone))).val
WellFormedTz(timezone) == timezone # <<>> /\ SignPos(timezone) >= 0

\* C13 (as claimed): a naive datetime renders as the bare stamp; an aware one as
\* the stamp and a bracketed suffix holding the zone's offset from UTC in hours
\* with its sign (+9.00 for JST-9, -8.00 for PST+8) and the zone's name.
C13_SignedOffset ==
    pc = "stamped" =>
        /\ query.timezone = <<>> => result = Ok(Stamp(query.day))
        /\ WellFormedTz(query.timezone) =>
              /\ result.exc = "none"
              /\ result.val = Stamp(query.day) \o <<"[">>
                              \o FormatF2(100 * ActualOffset(query.timezone))
                              \o <<":">> \o Upper(SliceTo(query.timezone, SignPos(query.timezone)))
                              \o <<"]">>

\* ---- the grouping of the order history
\* C14 (as claimed): in whatever order the rows of different orders come, what is
\* stored under an order id comes from rows with that order id, and every row
\* that is not ignored has been applied to the order with its own id.
C14_RowsUnderOwnOrder ==
    \A k \in 1..Len(az) :
        /\ \A b \in 1..Len(az[k].batches) :
              \A g \in 1..Len(az[k].batches[b]) :
                 \A m \in 1..Len(az[k].batches[b][g]) :
                    az[k].batches[b][g][m].orderid = az[k].orderid
        /\ \A r \in 1..Len(az[k].applied) :
              az[k].applied[r].name \notin PSEUDO_LINES =>
                 az[k].applied[r].orderid = az[k].orderid

====
